---- MODULE Spec2Model ----
(***************************************************************************)
(* A model of the Polymarket up-or-down bot (src/src/main.py): the seed     *)
(* phase with its ledger file (place_orders_for_future_longer_timeframes,   *)
(* load_placed_market_ids, save_placed_market_ids, run_every_15_minutes),   *)
(* the event selectors (get_future_event_from_series,                       *)
(* get_active_event_from_series), the entry decision                        *)
(* (should_enter_market) and the active-trading phase (start_trading_bot).  *)
(* The file holds the program twice; the second copy (lines 523-1062) is    *)
(* the one Python runs, and the line numbers of the definitions below are   *)
(* its.                                                                     *)
(*                                                                          *)
(* Time is counted in whole units: buckets for the seed phase, seconds for  *)
(* the entry decision (every cut-off of the code is a whole number of       *)
(* seconds, so a fraction of a second behaves as one of its neighbours).    *)
(* Prices are counted in thousandths (0.85 is 850).                         *)
(***************************************************************************)
EXTENDS Integers, Sequences, FiniteSets, Bags, TLC

\* ------------------------------------------------------------------ bounds
NumSeries == 2
MaxTime == 1

\* ------------------------------------------------------- program constants
SeedPrice == 490
SeedSize == 5
SeedIndex == 1

\* The bot process; a restart is the same process starting over.
Procs == {"bot1"}

\* --------------------------------------------------------------- endDate
\* An endDate field as the API gives it: an ISO timestamp of t with the
\* suffix Z ("z"), one without it ("naive"), a string that is no timestamp
\* ("bad"), or no field at all ("missing").
ZDate(t) == [kind |-> "z", t |-> t]

\* ev["endDate"].replace("Z", ""): the suffix is cut off; a missing field
\* raises (KeyError, or AttributeError on None).
StripZ(d) ==
    CASE d.kind = "z" -> [ok |-> TRUE, kind |-> "naive", t |-> d.t]
      [] d.kind = "missing" -> [ok |-> FALSE, kind |-> "missing", t |-> 0]
      [] OTHER -> [ok |-> TRUE, kind |-> d.kind, t |-> d.t]

\* datetime.fromisoformat(...).replace(tzinfo=timezone.utc): the instant t in
\* UTC, or a raise (ok = FALSE).
ParseEndDate(d) ==
    LET s == StripZ(d)
    IN  IF s.ok /\ s.kind = "naive"
        THEN [ok |-> TRUE, t |-> s.t]
        ELSE [ok |-> FALSE, t |-> 0]

\* ------------------------------------------------------------- selectors
\* The loop of both selectors: the (end_time, ev) pairs of the events that
\* parse and end after now, in the order of the list.  An event is named by
\* its position in the series' list.  The test of the loop is
\* `if end_time > now`.
EndsNoEarlier(end_time, now0) == end_time >= now0
EndsAfter(end_time, now0) == end_time > now0

RECURSIVE FutureUpToBadDate(_, _, _)
FutureUpToBadDate(events, now0, i) ==
    IF i > Len(events) THEN <<>>
    ELSE LET p == ParseEndDate(events[i].endDate)
             rest == FutureUpToBadDate(events, now0, i + 1)
         IN  IF ~p.ok THEN <<>>
             ELSE IF EndsAfter(p.t, now0)
             THEN <<[end |-> p.t, pos |-> i]>> \o rest
             ELSE rest

RECURSIVE FutureFrom(_, _, _)
FutureFrom(events, now0, i) ==
    IF i > Len(events) THEN <<>>
    ELSE LET p == ParseEndDate(events[i].endDate)
             rest == FutureFrom(events, now0, i + 1)
         IN  IF p.ok /\ EndsAfter(p.t, now0)
             THEN <<[end |-> p.t, pos |-> i]>> \o rest
             ELSE rest

\* list.sort(key=lambda x: x[0]): a stable sort on end_time alone.
InsertAtEnd(sorted, x) == Append(sorted, x)

RECURSIVE InsertByEnd(_, _)
InsertByEnd(sorted, x) ==
    IF sorted = <<>> THEN <<x>>
    ELSE IF Head(sorted).end <= x.end
         THEN <<Head(sorted)>> \o InsertByEnd(Tail(sorted), x)
         ELSE <<x>> \o sorted

RECURSIVE SortByEnd(_)
SortByEnd(pairs) ==
    IF pairs = <<>> THEN <<>>
    ELSE InsertByEnd(SortByEnd(SubSeq(pairs, 1, Len(pairs) - 1)),
                     pairs[Len(pairs)])

\* get_future_event_from_series(series_obj, future_index): the position of
\* the event returned, 0 for None.
GetNearestFutureEvent(events, now0, future_index) ==
    IF events = <<>> THEN 0
    ELSE LET fut == SortByEnd(FutureFrom(events, now0, 1))
         IN  IF Len(fut) = 0 THEN 0 ELSE fut[1].pos
GetFutureEventFromSeries(events, now0, future_index) ==
    IF events = <<>> THEN 0
    ELSE LET fut == SortByEnd(FutureFrom(events, now0, 1))
         IN  IF Len(fut) <= future_index THEN 0
             ELSE fut[future_index + 1].pos

\* get_active_event_from_series(series_obj).
GetFirstFutureEvent(events, now0) ==
    IF events = <<>> THEN 0
    ELSE LET fut == FutureFrom(events, now0, 1)
         IN  IF fut = <<>> THEN 0
             ELSE fut[1].pos
GetActiveEventFromSeries(events, now0) ==
    IF events = <<>> THEN 0
    ELSE LET fut == FutureFrom(events, now0, 1)
         IN  IF fut = <<>> THEN 0
             ELSE SortByEnd(fut)[1].pos

\* ------------------------------------------------------------ the ledger
\* The ledger file: absent ("missing"), not JSON ("corrupt"), JSON that
\* data.get or set() raises on ("shape": a list, null, market_ids a number
\* or null), a JSON object with the list market_ids ("record"; extra: it
\* holds other keys too), or a JSON object whose market_ids is no list but
\* a value set() iterates ("keyed": an object, read as its keys).  A list
\* is kept up to the order of its ids, as a bag (how often each id stands
\* in it): list(market_ids) lists a set in an order that changes from run
\* to run, and set(...) reads a list whatever its order.
MissingFile == [kind |-> "missing", ids |-> EmptyBag, extra |-> FALSE]
CorruptFile == [kind |-> "corrupt", ids |-> EmptyBag, extra |-> FALSE]
ShapeFile == [kind |-> "shape", ids |-> EmptyBag, extra |-> FALSE]
RecordFile(b, x) == [kind |-> "record", ids |-> b, extra |-> x]
KeyedFile(S) == [kind |-> "keyed", ids |-> SetToBag(S), extra |-> FALSE]

\* load_placed_market_ids(): set() of what market_ids holds, the empty set
\* for a missing file and for one that json.load, data.get or set() raises
\* on.
\* A call ends with a set (raised = FALSE) or with an exception.
Returned(S) == [raised |-> FALSE, ids |-> S]
Raises == [raised |-> TRUE, ids |-> {}]

\* The body of the try: json.load(f), data.get("market_ids", []), set(...).
ReadLedger(f) ==
    IF f.kind \in {"record", "keyed"} THEN Returned(BagToSet(f.ids)) ELSE Raises

LoadIgnoresFile(f) == Returned({})
LoadUncaught(f) == IF f.kind = "missing" THEN Returned({}) ELSE ReadLedger(f)
LoadPlacedMarketIds(f) ==
    IF f.kind = "missing" THEN Returned({})
    ELSE IF ReadLedger(f).raised THEN Returned({})
    ELSE ReadLedger(f)

\* save_placed_market_ids(market_ids): the file is overwritten with
\* {"market_ids": list(market_ids)}, each id of the set once.
SavePlacedMarketIds(S) == RecordFile(SetToBag(S), FALSE)

\* ------------------------------------------------ the market data gateway
NumEvents == MaxTime + 1

\* What get_crypto_series returns for series s: a first event whose endDate
\* is no timestamp, then the events e = NumEvents, ..., 1 (not sorted), event
\* e ending at time e.  An event's slug is <<s, e>>.
SeriesEvents(s) ==
    <<[slug |-> <<s, 0>>, endDate |-> [kind |-> "bad", t |-> 0]]>> \o
    [i \in 1..NumEvents |->
        [slug |-> <<s, NumEvents + 1 - i>>,
         endDate |-> ZDate(NumEvents + 1 - i)]]

\* The id the API gives the market of an event.
MarketIdOf(slug) == ToString(slug[1]) \o "-" \o ToString(slug[2])

\* The id field of a market record: a string, or absent (None).
IdFields(slug) ==
    {[has |-> TRUE, v |-> MarketIdOf(slug)],
     [has |-> TRUE, v |-> ""],
     [has |-> FALSE, v |-> ""]}

\* The clobTokenIds field of a market record: absent or empty ("missing"),
\* no JSON ("badjson"), or the JSON list toks.
TokenFields(slug) ==
    {[kind |-> "list", toks |-> <<<<slug, "YES">>, <<slug, "NO">>>>],
     [kind |-> "list", toks |-> <<<<slug, "YES">>>>],
     [kind |-> "missing", toks |-> <<>>]}

\* What get_market_from_series(slug) can give: a raise (resp.raise_for_status),
\* an empty (falsy) record, or a market record.
MarketResponses(slug) ==
    {[status |-> "error", id |-> [has |-> FALSE, v |-> ""],
      tokens |-> [kind |-> "missing", toks |-> <<>>]],
     [status |-> "empty", id |-> [has |-> FALSE, v |-> ""],
      tokens |-> [kind |-> "missing", toks |-> <<>>]]}
    \cup
    {[status |-> "ok", id |-> i, tokens |-> t] :
        i \in IdFields(slug), t \in TokenFields(slug)}

\* str(market.get("id")).
StrOfId(idf) == IF idf.has THEN idf.v ELSE "None"

\* get_yes_no_tokens(market): the first two tokens, or a raise.
GetYesNoTokens(tf) ==
    IF tf.kind # "list" \/ Len(tf.toks) < 2
    THEN [ok |-> FALSE, yes |-> <<>>, no |-> <<>>]
    ELSE [ok |-> TRUE, yes |-> tf.toks[1], no |-> tf.toks[2]]

\* Every id the seed phase can put in the ledger.
AllIds ==
    {MarketIdOf(<<s, e>>) : s \in 1..NumSeries, e \in 1..NumEvents} \cup {"None"}

\* ----------------------------------------------------------------- state
VARIABLES
    now,          \* the clock, datetime.now(timezone.utc)
    file,         \* placed_markets.json
    pc,           \* where each bot process is
    idx,          \* the series the for loop of the seed pass is at
    placed_ids,   \* the seed pass's set placed_ids
    market,       \* the market the seed pass is placing orders for
    passLog,      \* the place_buy_order calls of the pass in progress
    skipped,      \* the ids the pass in progress found in placed_ids
    order_res,    \* how the last YES and NO place_buy_order calls ended
    submitted,    \* the <<id, side>> place_buy_order was ever called for
    outcome,      \* how the last finished pass ended
    sel,          \* a call of the event selectors: its arguments and results
    dec,          \* a call of should_enter_market: its inputs and decision
    led,          \* a load and save of the ledger file outside a pass
    bot           \* a run of start_trading_bot: where it is, what it polls

seedVars == <<now, file, pc, idx, placed_ids, market, passLog, skipped,
              order_res, submitted, outcome>>

otherVars == <<sel, dec, led, bot>>

NoOrders == [YES |-> "none", NO |-> "none"]

NoMarket == [id |-> "", yes |-> <<>>, no |-> <<>>]

\* The ledger files a bot can find when it starts: none, two damaged ones,
\* and the one an earlier run left after seeding a market of the first series.
InitFiles ==
    {MissingFile, CorruptFile, ShapeFile,
     RecordFile(SetToBag({MarketIdOf(<<1, SeedIndex + 1>>)}), FALSE)}

\* ------------------------------------------------------------ seed phase
\* The locals of a pass are gone when place_orders_for_future_longer_timeframes
\* returns or raises.
EndPass(p, how) ==
    /\ pc' = [pc EXCEPT ![p] = "sleep"]
    /\ outcome' = how
    /\ placed_ids' = [placed_ids EXCEPT ![p] = {}]
    /\ market' = [market EXCEPT ![p] = NoMarket]
    /\ passLog' = [passLog EXCEPT ![p] = <<>>]
    /\ skipped' = [skipped EXCEPT ![p] = {}]
    /\ order_res' = [order_res EXCEPT ![p] = NoOrders]
    /\ idx' = [idx EXCEPT ![p] = 0]

\* An exception leaves the pass: nothing in the function catches it, the
\* try of run_every_15_minutes does, and the loop goes on to its sleep.
AbortPassSaving(p) ==
    /\ EndPass(p, "aborted")
    /\ file' = SavePlacedMarketIds(placed_ids[p])
    /\ UNCHANGED <<now, submitted>>
AbortPass(p) ==
    /\ EndPass(p, "aborted")
    /\ UNCHANGED <<now, file, submitted>>

\* The main block: env, client and healthcheck, then run_every_15_minutes.
Boot(p) ==
    /\ UNCHANGED otherVars
    /\ pc[p] = "boot"
    /\ pc' = [pc EXCEPT ![p] = "cycle"]
    /\ UNCHANGED <<now, file, idx, placed_ids, market, passLog, skipped,
                   order_res, submitted, outcome>>

\* The pass begins: get_crypto_series(slugs_longer), which raises when a
\* request fails.
StartPass(p) ==
    /\ UNCHANGED otherVars
    /\ pc[p] = "cycle"
    /\ \/ AbortPass(p)
       \/ /\ pc' = [pc EXCEPT ![p] = "load"]
          /\ UNCHANGED <<now, file, idx, placed_ids, market, passLog,
                         skipped, order_res, submitted, outcome>>

\* placed_ids = load_placed_market_ids(), and the for loop begins.
LoadLedger(p) ==
    /\ UNCHANGED otherVars
    /\ pc[p] = "load"
    /\ LET loaded == LoadPlacedMarketIds(file)
       IN  IF loaded.raised
           THEN AbortPass(p)
           ELSE /\ pc' = [pc EXCEPT ![p] = "series"]
                /\ idx' = [idx EXCEPT ![p] = 1]
                /\ placed_ids' = [placed_ids EXCEPT ![p] = loaded.ids]
                /\ UNCHANGED <<now, file, market, passLog, skipped,
                               order_res, submitted, outcome>>

\* The for loop goes on to the next series (continue, or the end of the body).
NextSeries(p) ==
    /\ idx' = [idx EXCEPT ![p] = idx[p] + 1]
    /\ UNCHANGED <<now, file, pc, placed_ids, market, passLog, order_res,
                   submitted, outcome>>

\* The body of the for loop up to the first order, for series idx[p]: the
\* event of index 1, its market, the market's id, the ledger check and the
\* token pair.
SeriesStep(p) ==
    /\ UNCHANGED otherVars
    /\ pc[p] = "series"
    /\ idx[p] <= NumSeries
    /\ LET events == SeriesEvents(idx[p])
           pos == GetFutureEventFromSeries(events, now, SeedIndex)
       IN  IF pos = 0
           THEN NextSeries(p) /\ UNCHANGED skipped
           ELSE \E resp \in MarketResponses(events[pos].slug) :
                LET market_id == StrOfId(resp.id)
                    toks == GetYesNoTokens(resp.tokens)
                IN  CASE resp.status = "error" -> AbortPass(p)
                      [] resp.status = "empty" ->
                            NextSeries(p) /\ UNCHANGED skipped
                      [] resp.status = "ok" /\ market_id = "" ->
                            NextSeries(p) /\ UNCHANGED skipped
                      [] resp.status = "ok" /\ market_id # ""
                            /\ market_id \in placed_ids[p] ->
                            /\ NextSeries(p)
                            /\ skipped' = [skipped EXCEPT ![p] = @ \cup {market_id}]
                      [] resp.status = "ok" /\ market_id # ""
                            /\ market_id \notin placed_ids[p] /\ ~toks.ok ->
                            AbortPass(p)
                      [] OTHER ->
                            /\ market' = [market EXCEPT ![p] =
                                   [id |-> market_id, yes |-> toks.yes, no |-> toks.no]]
                            /\ pc' = [pc EXCEPT ![p] = "yes"]
                            /\ UNCHANGED <<now, file, idx, placed_ids, passLog,
                                           skipped, order_res, submitted,
                                           outcome>>

\* One place_buy_order call of the seed phase, which returns ("placed") or
\* raises ("failed"); the except of the call catches the raise.
SeedOrderOtherSide(p, side, token, res) ==
    /\ passLog' = [passLog EXCEPT ![p] = Append(@,
           [series |-> idx[p], id |-> market[p].id,
            side |-> IF side = "YES" THEN "NO" ELSE "YES",
            token |-> token, price |-> SeedPrice, size |-> SeedSize])]
    /\ order_res' = [order_res EXCEPT ![p][side] = res]
    /\ submitted' = submitted \cup {<<market[p].id, side>>}
SeedOrder(p, side, token, res) ==
    /\ passLog' = [passLog EXCEPT ![p] = Append(@,
           [series |-> idx[p], id |-> market[p].id, side |-> side,
            token |-> token, price |-> SeedPrice, size |-> SeedSize])]
    /\ order_res' = [order_res EXCEPT ![p][side] = res]
    /\ submitted' = submitted \cup {<<market[p].id, side>>}

PlaceYes(p) ==
    /\ UNCHANGED otherVars
    /\ pc[p] = "yes"
    /\ \E res \in {"placed", "failed"} : SeedOrder(p, "YES", market[p].yes, res)
    /\ pc' = [pc EXCEPT ![p] = "no"]
    /\ UNCHANGED <<now, file, idx, placed_ids, market, skipped, outcome>>

\* The NO order, then placed_ids.add(market_id) and the next series.
PlaceNoOmitted(p) ==
    /\ UNCHANGED otherVars
    /\ pc[p] = "no"
    /\ placed_ids' = [placed_ids EXCEPT ![p] = @ \cup {market[p].id}]
    /\ idx' = [idx EXCEPT ![p] = idx[p] + 1]
    /\ market' = [market EXCEPT ![p] = NoMarket]
    /\ pc' = [pc EXCEPT ![p] = "series"]
    /\ UNCHANGED <<now, file, skipped, outcome, passLog, order_res, submitted>>
PlaceNo(p) ==
    /\ UNCHANGED otherVars
    /\ pc[p] = "no"
    /\ \E res \in {"placed", "failed"} : SeedOrder(p, "NO", market[p].no, res)
    /\ placed_ids' = [placed_ids EXCEPT ![p] = @ \cup {market[p].id}]
    /\ idx' = [idx EXCEPT ![p] = idx[p] + 1]
    /\ market' = [market EXCEPT ![p] = NoMarket]
    /\ pc' = [pc EXCEPT ![p] = "series"]
    /\ UNCHANGED <<now, file, skipped, outcome>>

\* After the loop: save_placed_market_ids(placed_ids), and the pass returns.
SavePassMerging(p) ==
    /\ UNCHANGED otherVars
    /\ pc[p] = "series"
    /\ idx[p] > NumSeries
    /\ file' = SavePlacedMarketIds(placed_ids[p]
                                    \cup LoadPlacedMarketIds(file).ids)
    /\ EndPass(p, "saved")
    /\ UNCHANGED <<now, submitted>>
SavePass(p) ==
    /\ UNCHANGED otherVars
    /\ pc[p] = "series"
    /\ idx[p] > NumSeries
    /\ file' = SavePlacedMarketIds(placed_ids[p])
    /\ EndPass(p, "saved")
    /\ UNCHANGED <<now, submitted>>

\* time.sleep(60), then the next cycle of the while loop.
SleepThenRedeem(p) ==
    /\ UNCHANGED otherVars
    /\ pc[p] = "sleep"
    /\ \E quarter \in BOOLEAN :
          pc' = [pc EXCEPT ![p] = IF quarter THEN "stopped" ELSE "cycle"]
    /\ UNCHANGED <<now, file, idx, placed_ids, market, passLog, skipped,
                   order_res, submitted, outcome>>
Sleep(p) ==
    /\ UNCHANGED otherVars
    /\ pc[p] = "sleep"
    /\ pc' = [pc EXCEPT ![p] = "cycle"]
    /\ UNCHANGED <<now, file, idx, placed_ids, market, passLog, skipped,
                   order_res, submitted, outcome>>

\* The process is stopped between two passes and started again.
Restart(p) ==
    /\ UNCHANGED otherVars
    /\ pc[p] = "sleep"
    /\ pc' = [pc EXCEPT ![p] = "boot"]
    /\ UNCHANGED <<now, file, idx, placed_ids, market, passLog, skipped,
                   order_res, submitted, outcome>>

\* Time passes.
Tick ==
    /\ UNCHANGED otherVars
    /\ now < MaxTime
    /\ now' = now + 1
    /\ UNCHANGED <<file, pc, idx, placed_ids, market, passLog, skipped,
                   order_res, submitted, outcome>>

SeedStep(p) ==
    \/ Boot(p)
    \/ StartPass(p)
    \/ LoadLedger(p)
    \/ SeriesStep(p)
    \/ PlaceYes(p)
    \/ PlaceNo(p)
    \/ SavePass(p)
    \/ Sleep(p)
    \/ Restart(p)

\* -------------------------------------------------------- entry decision
\* The numbers of should_enter_market: prices in thousandths, times in
\* seconds (MaxMinutes in minutes).
BaseThreshold == 900
MidThreshold == 850
LateThreshold == 750
MaxBuyPrice == 980
MaxMinutes == 4
MinSeconds == 30
MidSeconds == 180
LateSeconds == 100

\* A price field of the live quotes: a number ("num"), a value float()
\* raises on ("bad"), or no value (None: the token or its BUY key is not in
\* the answer, "none").
NumPrice(v) == [kind |-> "num", v |-> v]
BadPrice == [kind |-> "bad", v |-> 0]
NoPrice == [kind |-> "none", v |-> 0]

\* safe_price(value): float(value), 0.0 when float raises.
SafePrice(q) == IF q.kind = "num" THEN q.v ELSE 0

\* prices.get(token, {}).get("BUY").
BuyField(book, token) ==
    IF token \in DOMAIN book THEN book[token] ELSE NoPrice

\* minutes_left > 4, with minutes_left = seconds_left / 60.
TooEarlyNever(seconds_left) == FALSE
TooEarly(seconds_left) == seconds_left > MaxMinutes * 60

\* The dynamic threshold: two ifs one after the other, the later one wins.
ThresholdAtOrBelow(seconds_left) ==
    LET t0 == BaseThreshold
        t1 == IF seconds_left <= MidSeconds THEN MidThreshold ELSE t0
    IN  IF seconds_left <= LateSeconds THEN LateThreshold ELSE t1
ThresholdFor(seconds_left) ==
    LET t0 == BaseThreshold
        t1 == IF seconds_left < MidSeconds THEN MidThreshold ELSE t0
    IN  IF seconds_left < LateSeconds THEN LateThreshold ELSE t1

\* yes_price > 0.98 or no_price > 0.98.
PriceTooHighYesOnly(yes_price, no_price) == yes_price > MaxBuyPrice
PriceTooHigh(yes_price, no_price) ==
    yes_price > MaxBuyPrice \/ no_price > MaxBuyPrice

NoEntry == [r |-> "no_entry", side |-> "-", token |-> "-"]
Raised == [r |-> "raise", side |-> "-", token |-> "-"]
Enter(side, token) == [r |-> "enter", side |-> side, token |-> token]

\* if yes_price >= threshold ... if no_price >= threshold ... return False.
PickSideNoFirst(yes_price, no_price, threshold, toks) ==
    IF no_price >= threshold THEN Enter("NO", toks.no)
    ELSE IF yes_price >= threshold THEN Enter("YES", toks.yes)
    ELSE NoEntry
PickSide(yes_price, no_price, threshold, toks) ==
    IF yes_price >= threshold THEN Enter("YES", toks.yes)
    ELSE IF no_price >= threshold THEN Enter("NO", toks.no)
    ELSE NoEntry

\* should_enter_market(market): m is the market record, now0 the clock and
\* quotes what get_live_prices gives (ok: the request did not raise).
ShouldEnterMarket(m, now0, quotes) ==
    LET end_time == ParseEndDate(m.endDate)
        seconds_left == end_time.t - now0
        toks == GetYesNoTokens(m.tokens)
        yes_price == SafePrice(BuyField(quotes.book, toks.yes))
        no_price == SafePrice(BuyField(quotes.book, toks.no))
    IN  IF ~end_time.ok THEN Raised
        ELSE IF TooEarly(seconds_left) THEN NoEntry
        ELSE IF seconds_left < MinSeconds THEN NoEntry
        ELSE IF ~toks.ok THEN Raised
        ELSE IF ~quotes.ok THEN Raised
        ELSE IF PriceTooHigh(yes_price, no_price) THEN NoEntry
        ELSE PickSide(yes_price, no_price, ThresholdFor(seconds_left), toks)

\* ---------------------------------------------------- active trading
\* The numbers of start_trading_bot: the cut-off of its loop in seconds,
\* and the size place_buy_order takes when none is given.
BotMinSeconds == 30
OrderSize == 5
SleepSeconds == 20

\* `if seconds_left < 30: return`.
CutOffWhileOpen(seconds_left) ==
    seconds_left < BotMinSeconds /\ seconds_left >= 0
CutOff(seconds_left) == seconds_left < BotMinSeconds

\* float(live.get("BUY", 0)): the number, 0 for a key that is not there,
\* a raise for a value float() does not take.
FloatField(q) ==
    CASE q.kind = "num" -> [raised |-> FALSE, v |-> q.v]
      [] q.kind = "none" -> [raised |-> FALSE, v |-> 0]
      [] OTHER -> [raised |-> TRUE, v |-> 0]

\* prices.get(token, {}).get(key, 0), before float().
LiveField(side_book, token) ==
    IF token \in DOMAIN side_book THEN side_book[token] ELSE NoPrice

\* entry_price = yes_sell if side == "YES" else no_sell.
EntryPriceOtherSide(side, yes_sell, no_sell) ==
    IF side = "YES" THEN no_sell ELSE yes_sell
EntryPrice(side, yes_sell, no_sell) ==
    IF side = "YES" THEN yes_sell ELSE no_sell

\* How one turn of the for loop over series_ids ends: the loop goes on
\* ("continue"), the function returns ("return") or an exception leaves it
\* ("raise"); decided: should_enter_market returned; placed: the
\* place_buy_order calls of the turn.
Turn(exit, decided, decision, placed) ==
    [exit |-> exit, decided |-> decided, decision |-> decision,
     placed |-> placed]

\* except Exception around place_buy_order: a failed order is printed.
OrderFailureCaught(res) == "continue"

\* The body of the for loop for one market: resp is what
\* get_market_from_series gives, q1 what the loop's own get_live_prices
\* call gives, q2 what the call inside should_enter_market gives, res how
\* place_buy_order ends.
PollMarket(resp, now0, q1, q2, res) ==
    LET end_time == ParseEndDate(resp.endDate)
        seconds_left == end_time.t - now0
        toks == GetYesNoTokens(resp.tokens)
        yes_buy == FloatField(LiveField(q1.buy, toks.yes))
        yes_sell == FloatField(LiveField(q1.sell, toks.yes))
        no_buy == FloatField(LiveField(q1.buy, toks.no))
        no_sell == FloatField(LiveField(q1.sell, toks.no))
        decision == ShouldEnterMarket(resp, now0, q2)
        stop(how) == Turn(how, FALSE, NoEntry, <<>>)
    IN  IF resp.status = "error" THEN stop("raise")
        ELSE IF resp.status = "empty" THEN stop("continue")
        ELSE IF ~end_time.ok THEN stop("raise")
        ELSE IF CutOff(seconds_left) THEN stop("return")
        ELSE IF ~toks.ok THEN stop("raise")
        ELSE IF ~q1.ok THEN stop("raise")
        ELSE IF yes_buy.raised \/ yes_sell.raised
                \/ no_buy.raised \/ no_sell.raised THEN stop("raise")
        ELSE IF decision = Raised THEN stop("raise")
        ELSE IF decision = NoEntry THEN Turn("continue", TRUE, decision, <<>>)
        ELSE Turn(OrderFailureCaught(res), TRUE, decision,
                  <<[token |-> decision.token,
                     price |-> EntryPrice(decision.side, yes_sell.v, no_sell.v),
                     size |-> OrderSize]>>)

NoTurn == Turn("continue", FALSE, NoEntry, <<>>)
NoPoll == [resp |-> [status |-> "empty", endDate |-> ZDate(0),
                     tokens |-> [kind |-> "missing", toks |-> <<>>]],
           q1 |-> [ok |-> FALSE, buy |-> <<>>, sell |-> <<>>],
           q2 |-> [ok |-> FALSE, book |-> <<>>]]
NoBot == [pc |-> "off", ids |-> <<>>, k |-> 0, t |-> 0, polled |-> NoPoll,
          turn |-> NoTurn]

\* series_ids: the slug of the nearest future event of each series that has
\* one, in the order of the series.
RECURSIVE ActiveSlugs(_, _)
ActiveSlugs(s, now0) ==
    IF s > NumSeries THEN <<>>
    ELSE LET events == SeriesEvents(s)
             pos == GetActiveEventFromSeries(events, now0)
         IN  IF pos = 0 THEN ActiveSlugs(s + 1, now0)
             ELSE <<events[pos].slug>> \o ActiveSlugs(s + 1, now0)

\* start_trading_bot up to its while loop: get_crypto_series, which raises
\* when a request fails, and the for loop that fills series_ids.
TradeStart ==
    /\ bot.pc = "start"
    /\ \/ bot' = [bot EXCEPT !.pc = "raised"]
       \/ bot' = [bot EXCEPT !.pc = "poll", !.k = 1,
                             !.ids = ActiveSlugs(1, now)]
    /\ UNCHANGED <<seedVars, sel, dec, led>>

\* One turn of the for loop of a poll, for the market of series_ids[k]: the
\* market is fetched by its slug, and the turn ends as PollMarket says.
TradePoll(resp, q1, q2, res) ==
    /\ bot.pc = "poll"
    /\ bot.k <= Len(bot.ids)
    /\ LET turn == PollMarket(resp, bot.t, q1, q2, res)
       IN  bot' = [bot EXCEPT
                     !.polled = [resp |-> resp, q1 |-> q1, q2 |-> q2],
                     !.turn = turn,
                     !.k = IF turn.exit = "continue" THEN bot.k + 1 ELSE bot.k,
                     !.pc = CASE turn.exit = "continue" -> "poll"
                              [] turn.exit = "return" -> "returned"
                              [] OTHER -> "raised"]
    /\ UNCHANGED <<seedVars, sel, dec, led>>

\* The for loop is through: time.sleep(20), and the next poll.  The sleep
\* takes its time when TradeTick lets it pass.
TradeSleep ==
    /\ bot.pc = "poll"
    /\ bot.k > Len(bot.ids)
    /\ bot' = [bot EXCEPT !.k = 1, !.polled = NoPoll, !.turn = NoTurn]
    /\ UNCHANGED <<seedVars, sel, dec, led>>

\* Time passes while the phase runs, a sleep's length at a time: bot.t is
\* the seconds since start_trading_bot was called.  The clock is followed up
\* to the end of the last market of the series.
SlotSeconds == 60
MaxClock == NumEvents * SlotSeconds

TradeTick ==
    /\ bot.pc = "poll"
    /\ bot.t < MaxClock
    /\ bot' = [bot EXCEPT !.t = bot.t + SleepSeconds]
    /\ UNCHANGED <<seedVars, sel, dec, led>>

\* ------------------------------------------------------------ the specs
vars == <<now, file, pc, idx, placed_ids, market, passLog, skipped,
          order_res, submitted, outcome, sel, dec, led, bot>>

NoSel == [events |-> <<>>, now |-> 0, index |-> 0,
          futureDone |-> FALSE, future |-> 0,
          activeDone |-> FALSE, active |-> 0]
NoDec == [endDate |-> ZDate(0), now |-> 0,
          tokens |-> [kind |-> "missing", toks |-> <<>>],
          quotes |-> [ok |-> FALSE, book |-> <<>>],
          done |-> FALSE, decision |-> NoEntry]
NoLed == [file |-> MissingFile, before |-> MissingFile, mem |-> {},
          step |-> "start"]

\* The bot before it starts, with a ledger file from InitFiles.
SeedStart ==
    /\ now = 0
    /\ file \in InitFiles
    /\ pc = [p \in Procs |-> "boot"]
    /\ idx = [p \in Procs |-> 0]
    /\ placed_ids = [p \in Procs |-> {}]
    /\ market = [p \in Procs |-> NoMarket]
    /\ passLog = [p \in Procs |-> <<>>]
    /\ skipped = [p \in Procs |-> {}]
    /\ order_res = [p \in Procs |-> NoOrders]
    /\ submitted = {}
    /\ outcome = "none"

\* The seed phase of one bot under the master loop.
Init ==
    /\ SeedStart
    /\ sel = NoSel
    /\ dec = NoDec
    /\ led = NoLed
    /\ bot = NoBot

Next == SeedStep("bot1") \/ Tick

Spec == Init /\ [][Next]_vars

\* The bot process keeps running: a step it can take (a request that
\* answers or fails, the sleep that ends) is taken in the end.  The body of
\* the loop can be run exactly when the loop is at a series of the list, so
\* its weak fairness is written out with that condition.
AtSeries(p) == pc[p] = "series" /\ idx[p] <= NumSeries

Running(p) ==
    /\ WF_vars(Boot(p))
    /\ WF_vars(StartPass(p))
    /\ WF_vars(LoadLedger(p))
    /\ ([]<>(~AtSeries(p)) \/ []<><<SeriesStep(p)>>_vars)
    /\ WF_vars(PlaceYes(p))
    /\ WF_vars(PlaceNo(p))
    /\ WF_vars(SavePass(p))
    /\ WF_vars(Sleep(p) \/ Restart(p))

SpecLive == Init /\ [][Next]_vars /\ Running("bot1")

\* The bot set up anew: placed_markets.json holds no id (it is missing, or
\* what it holds loads as the empty set).
InitEmptyLedger == Init /\ LoadPlacedMarketIds(file) = Returned({})

SpecEmptyLedger == InitEmptyLedger /\ [][Next]_vars

\* ---- two bot processes started on the same placed_markets.json: nothing
\* in the program keeps a second process from being started, and each reads
\* and writes the file by its name.
Bots == {"bot1", "bot2"}

InitTwoBots ==
    /\ now = 0
    /\ file = MissingFile
    /\ pc = [p \in Bots |-> "boot"]
    /\ idx = [p \in Bots |-> 0]
    /\ placed_ids = [p \in Bots |-> {}]
    /\ market = [p \in Bots |-> NoMarket]
    /\ passLog = [p \in Bots |-> <<>>]
    /\ skipped = [p \in Bots |-> {}]
    /\ order_res = [p \in Bots |-> NoOrders]
    /\ submitted = {}
    /\ outcome = "none"
    /\ sel = NoSel
    /\ dec = NoDec
    /\ led = NoLed
    /\ bot = NoBot

NextTwoBots == SeedStep("bot1") \/ SeedStep("bot2")

SpecTwoBots == InitTwoBots /\ [][NextTwoBots]_vars

\* ---- the selectors on every small series
MaxEvents == 3

DateSamples ==
    {ZDate(t) : t \in 0..MaxEvents}
    \cup {[kind |-> "naive", t |-> MaxEvents],
          [kind |-> "bad", t |-> 0], [kind |-> "missing", t |-> 0]}

EventLists ==
    UNION {{[i \in 1..n |-> [slug |-> i, endDate |-> f[i]]] :
                f \in [1..n -> DateSamples]} : n \in 0..MaxEvents}

InitSelect ==
    /\ SeedStart
    /\ file = MissingFile
    /\ dec = NoDec
    /\ led = NoLed
    /\ bot = NoBot
    /\ \E ev \in EventLists, t \in 0..MaxEvents, i \in 0..MaxEvents :
          sel = [NoSel EXCEPT !.events = ev, !.now = t, !.index = i]

SelectFuture ==
    /\ ~sel.futureDone
    /\ sel' = [sel EXCEPT !.futureDone = TRUE,
                  !.future = GetFutureEventFromSeries(sel.events, sel.now, sel.index)]
    /\ UNCHANGED <<seedVars, dec, led, bot>>

SelectActive ==
    /\ ~sel.activeDone
    /\ sel' = [sel EXCEPT !.activeDone = TRUE,
                  !.active = GetActiveEventFromSeries(sel.events, sel.now)]
    /\ UNCHANGED <<seedVars, dec, led, bot>>

NextSelect == SelectFuture \/ SelectActive

SpecSelect == InitSelect /\ [][NextSelect]_vars

\* ---- should_enter_market on sampled markets and quotes
SecondsSamples ==
    UNION {{c - 1, c, c + 1} : c \in {30, 100, 180, 240}}
    \cup {0 - 5, 0, 15, 50, 150, 200, 600}

PriceSamples ==
    {NumPrice(v) : v \in UNION {{c - 1, c, c + 1} : c \in {750, 850, 900, 980}}
                         \cup {0, 50, 100, 800, 860, 1000}}
    \cup {BadPrice, NoPrice}

TokenSamples ==
    {[kind |-> "list", toks |-> <<"tY", "tN">>],
     [kind |-> "list", toks |-> <<"tY", "tN", "tX">>],
     [kind |-> "list", toks |-> <<"tY">>],
     [kind |-> "missing", toks |-> <<>>]}

QuoteSamples ==
    {[ok |-> TRUE, book |-> [tY |-> y, tN |-> n]] : y, n \in PriceSamples}
    \cup {[ok |-> TRUE, book |-> [tN |-> NumPrice(900)]],
          [ok |-> FALSE, book |-> [tY |-> NumPrice(900)]]}

InitDecide ==
    /\ SeedStart
    /\ file = MissingFile
    /\ sel = NoSel
    /\ led = NoLed
    /\ bot = NoBot
    /\ \E t \in {0, 45}, e \in {"z", "bad"}, s \in SecondsSamples,
          tk \in TokenSamples, q \in QuoteSamples :
          dec = [NoDec EXCEPT !.now = t, !.endDate = [kind |-> e, t |-> t + s],
                              !.tokens = tk, !.quotes = q]

Decide ==
    /\ ~dec.done
    /\ dec' = [dec EXCEPT !.done = TRUE,
                  !.decision = ShouldEnterMarket(dec, dec.now, dec.quotes)]
    /\ UNCHANGED <<seedVars, sel, led, bot>>

NextDecide == Decide

SpecDecide == InitDecide /\ [][NextDecide]_vars

\* ---- load and save on every small ledger file
MaxCopies == 2

LedgerIds ==
    {MarketIdOf(<<s, SeedIndex + 1>>) : s \in 1..NumSeries} \cup {"None"}

FileSamples ==
    {MissingFile, CorruptFile, ShapeFile}
    \cup {RecordFile(b, x) :
            b \in UNION {[D -> 1..MaxCopies] : D \in SUBSET LedgerIds},
            x \in BOOLEAN}
    \cup {KeyedFile(D) : D \in SUBSET LedgerIds}

InitLedger ==
    /\ SeedStart
    /\ file = MissingFile
    /\ sel = NoSel
    /\ dec = NoDec
    /\ bot = NoBot
    /\ \E f \in FileSamples : led = [NoLed EXCEPT !.file = f, !.before = f]

LedgerLoad ==
    /\ led.step = "start"
    /\ LET loaded == LoadPlacedMarketIds(led.file)
       IN  led' = [led EXCEPT !.mem = loaded.ids,
                     !.step = IF loaded.raised THEN "raised" ELSE "loaded"]
    /\ UNCHANGED <<seedVars, sel, dec, bot>>

LedgerSave ==
    /\ led.step = "loaded"
    /\ led' = [led EXCEPT !.file = SavePlacedMarketIds(led.mem),
                          !.step = "saved"]
    /\ UNCHANGED <<seedVars, sel, dec, bot>>

NextLedger == LedgerLoad \/ LedgerSave

SpecLedger == InitLedger /\ [][NextLedger]_vars

\* ---- start_trading_bot on sampled markets and quotes
\* What a poll can be given for a market: the clock of a turn is 0 and the
\* market ends TradeSeconds after it.
TradeSeconds == {29, 30, 150}

\* A token pair as the market record gives it.
TokenSamples0 == [kind |-> "list", toks |-> <<"tY", "tN">>]

TradeMarkets ==
    {[status |-> st, endDate |-> ZDate(0), tokens |-> TokenSamples0]
        : st \in {"error", "empty"}}
    \cup {[status |-> "ok", endDate |-> d, tokens |-> tk] :
            d \in {ZDate(t) : t \in TradeSeconds}
                  \cup {[kind |-> "missing", t |-> 0]},
            tk \in {TokenSamples0, [kind |-> "missing", toks |-> <<>>]}}

TradeSells == {NumPrice(930), NumPrice(70), BadPrice, NoPrice}

TradeQuotes ==
    {[ok |-> TRUE, buy |-> [tY |-> NumPrice(900), tN |-> NumPrice(100)],
      sell |-> [tY |-> y, tN |-> n]] : y, n \in TradeSells}
    \cup {[ok |-> TRUE, buy |-> [tY |-> BadPrice, tN |-> NumPrice(100)],
           sell |-> [tY |-> NumPrice(930), tN |-> NumPrice(70)]],
          [ok |-> TRUE, buy |-> <<>>, sell |-> <<>>],
          [ok |-> FALSE, buy |-> <<>>, sell |-> <<>>]}

DecisionQuotes ==
    {[ok |-> TRUE, book |-> [tY |-> NumPrice(y), tN |-> NumPrice(n)]] :
        y, n \in {100, 900}}
    \cup {[ok |-> TRUE, book |-> [tY |-> NumPrice(990), tN |-> NumPrice(10)]],
          [ok |-> FALSE, book |-> <<>>]}

InitTrade ==
    /\ SeedStart
    /\ file = MissingFile
    /\ sel = NoSel
    /\ dec = NoDec
    /\ led = NoLed
    /\ bot = [NoBot EXCEPT !.pc = "start"]

NextTrade ==
    \/ TradeStart
    \/ \E resp \in TradeMarkets, q1 \in TradeQuotes, q2 \in DecisionQuotes,
          res \in {"placed", "failed"} : TradePoll(resp, q1, q2, res)
    \/ TradeSleep

SpecTrade == InitTrade /\ [][NextTrade]_vars

\* ---- start_trading_bot on the markets of its series, as time passes
\* The market of an event ends with the event: the event of slug <<s, e>>
\* ends at slot e, the phase starts at slot now, and a slot is SlotSeconds
\* long.
MarketEndsIn(slug) == (slug[2] - now) * SlotSeconds

\* What get_market_from_series(slug) can give a poll: a raise, an empty
\* record, or the market record of the slug.
LiveMarkets(slug) ==
    {[status |-> st, endDate |-> ZDate(MarketEndsIn(slug)),
      tokens |-> TokenSamples0] : st \in {"error", "empty", "ok"}}

\* What get_live_prices can give: a raise, or the prices of the two tokens.
LiveQuotes ==
    {[ok |-> TRUE, buy |-> [tY |-> NumPrice(900), tN |-> NumPrice(100)],
      sell |-> [tY |-> NumPrice(930), tN |-> NumPrice(70)]],
     [ok |-> FALSE, buy |-> <<>>, sell |-> <<>>]}

LiveDecisionQuotes ==
    {[ok |-> TRUE, book |-> [tY |-> NumPrice(y), tN |-> NumPrice(100)]] :
        y \in {100, 900}}
    \cup {[ok |-> FALSE, book |-> <<>>]}

\* The phase can start at any slot, the one after the last event included.
InitTradeLive ==
    /\ now \in 0..NumEvents
    /\ file = MissingFile
    /\ pc = [p \in Procs |-> "boot"]
    /\ idx = [p \in Procs |-> 0]
    /\ placed_ids = [p \in Procs |-> {}]
    /\ market = [p \in Procs |-> NoMarket]
    /\ passLog = [p \in Procs |-> <<>>]
    /\ skipped = [p \in Procs |-> {}]
    /\ order_res = [p \in Procs |-> NoOrders]
    /\ submitted = {}
    /\ outcome = "none"
    /\ sel = NoSel
    /\ dec = NoDec
    /\ led = NoLed
    /\ bot = [NoBot EXCEPT !.pc = "start"]

TradePollLive ==
    /\ bot.pc = "poll"
    /\ bot.k <= Len(bot.ids)
    /\ \E resp \in LiveMarkets(bot.ids[bot.k]), q1 \in LiveQuotes,
          q2 \in LiveDecisionQuotes, res \in {"placed", "failed"} :
          TradePoll(resp, q1, q2, res)

NextTradeLive == TradeStart \/ TradePollLive \/ TradeSleep \/ TradeTick

\* The process keeps running and time goes by.
SpecTradeLive ==
    /\ InitTradeLive
    /\ [][NextTradeLive]_vars
    /\ WF_vars(TradeStart)
    /\ WF_vars(TradePollLive)
    /\ WF_vars(TradeSleep)
    /\ WF_vars(TradeTick)

\* ------------------------------------------------------------ the claims
Last(q) == q[Len(q)]

\* A step in which bot p calls place_buy_order: its log grows by the call.
Submits(p) == Len(passLog'[p]) > Len(passLog[p])

\* The ids of markets: "None" is what str() makes of a record without an id.
RealIds == AllIds \ {"None"}

InPass(p) == pc[p] \in {"series", "yes", "no"}

\* A step that ends bot p's pass, by a return or by a raise.
PassEnds(p) ==
    pc[p] \in {"cycle", "load", "series", "yes", "no"} /\ pc'[p] = "sleep"

\* The ids that were marked as placed in some pass (placed_ids.add goes with
\* the NO order of the id).
EverMarked == {i \in RealIds : <<i, "NO">> \in submitted}

\* C1: over every sequence of seed passes, whether they return, raise part-way
\* or are followed by a restart, no place_buy_order call is made for a market
\* id and side that a call was made for before: each market id's YES order
\* and each market id's NO order is submitted at most once.
C1_SeedAtMostOnce ==
    [][\A p \in Procs :
          (Submits(p) /\ Last(passLog'[p]).id \in RealIds) =>
              <<Last(passLog'[p]).id, Last(passLog'[p]).side>> \notin submitted]_vars

\* C2: when a pass has run to its end and saved the ledger, every market id
\* it selected is in the saved file exactly once; and the pass that follows
\* it, the file being as the save left it, submits no order for an id of the
\* file.
C2_SecondPassIdempotent ==
    /\ [](\A p \in Procs :
             (outcome = "saved" /\ InPass(p)) =>
                /\ file.kind = "record"
                /\ \A i \in BagToSet(file.ids) : CopiesIn(i, file.ids) = 1
                /\ \A k \in 1..Len(passLog[p]) :
                      passLog[p][k].id \notin BagToSet(file.ids))
    /\ [][\A p \in Procs :
             (PassEnds(p) /\ outcome' = "saved") =>
                \A i \in skipped[p] \cup {passLog[p][k].id : k \in 1..Len(passLog[p])} :
                    file'.kind = "record" /\ CopiesIn(i, file'.ids) = 1]_vars

\* C2's case: after a pass that saved, the next pass finds in the ledger an id
\* that was seeded before, and skips it without an order.
C2_Witness ==
    /\ outcome = "saved"
    /\ pc["bot1"] = "series"
    /\ idx["bot1"] > NumSeries
    /\ passLog["bot1"] = <<>>
    /\ \E i \in skipped["bot1"] : <<i, "YES">> \in submitted /\ <<i, "NO">> \in submitted

\* C3: a failure while working on one series (its market cannot be fetched,
\* its token pair cannot be extracted) ends the work on that series only: a
\* pass that is in its loop does not end before the loop has come to the
\* last series of the list.
C3_FailureIsolated ==
    [][\A p \in Procs :
          (InPass(p) /\ PassEnds(p)) => idx[p] >= NumSeries]_vars

\* C4: after the YES call, failed or not, the NO call of the same market is
\* made; after both calls, failed or not, the id is in placed_ids; and no
\* later call is made for an id that was marked so.
C4_MarkedNeverSeededAgain ==
    /\ [](\A p \in Procs :
             /\ pc[p] = "no" =>
                   /\ passLog[p] # <<>>
                   /\ Last(passLog[p]).side = "YES"
                   /\ Last(passLog[p]).id = market[p].id
             /\ \A k \in 1..Len(passLog[p]) :
                   /\ passLog[p][k].side = "YES" /\ k < Len(passLog[p]) =>
                         /\ passLog[p][k + 1].side = "NO"
                         /\ passLog[p][k + 1].id = passLog[p][k].id
                   /\ passLog[p][k].side = "YES" /\ k = Len(passLog[p]) =>
                         pc[p] = "no"
                   /\ passLog[p][k].side = "NO" => passLog[p][k].id \in placed_ids[p])
    /\ [][\A p \in Procs :
             Submits(p) => Last(passLog'[p]).id \notin EverMarked]_vars

\* The part of C4 that is about one pass: NO follows YES whatever YES did, and
\* the id is in placed_ids after both, whatever they did.
C4_WithinPass ==
    \A p \in Procs :
        /\ \A k \in 1..Len(passLog[p]) :
              /\ passLog[p][k].side = "YES" /\ k < Len(passLog[p]) =>
                    /\ passLog[p][k + 1].side = "NO"
                    /\ passLog[p][k + 1].id = passLog[p][k].id
              /\ passLog[p][k].side = "YES" /\ k = Len(passLog[p]) => pc[p] = "no"
              /\ passLog[p][k].side = "NO" => passLog[p][k].id \in placed_ids[p]

\* ---- the selectors
\* The events of the call that have an end date, and that date after the
\* call's now: read off the fields, not through the selectors' parsing.
HasDate(ev) == ev.endDate.kind \in {"z", "naive"}
FuturePositions ==
    {j \in 1..Len(sel.events) :
        HasDate(sel.events[j]) /\ sel.events[j].endDate.t > sel.now}
EndOf(j) == sel.events[j].endDate.t

\* C5: an event a selector returns has an end date, and that date is
\* strictly after now; an event that ends at now or before is not returned.
C5_ReturnedEventIsFuture ==
    /\ (sel.futureDone /\ sel.future # 0) =>
          /\ HasDate(sel.events[sel.future])
          /\ EndOf(sel.future) > sel.now
    /\ (sel.activeDone /\ sel.active # 0) =>
          /\ HasDate(sel.events[sel.active])
          /\ EndOf(sel.active) > sel.now

\* C5's case: both selectors have returned an event, of a series that also
\* holds an event ending exactly at now.
C5_Witness ==
    /\ sel.futureDone /\ sel.future # 0
    /\ sel.activeDone /\ sel.active # 0
    /\ \E j \in 1..Len(sel.events) :
          HasDate(sel.events[j]) /\ EndOf(j) = sel.now

\* C6: with k future events, index i >= k gives none; index i < k gives a
\* future event that stands at place i + 1 when the future events are put in
\* ascending order of end date (at most i of them end before it, at least
\* i + 1 end no later); so index 0 gives one of minimum end date.
C6_IndexedByEndDate ==
    sel.futureDone =>
        LET k == Cardinality(FuturePositions)
            r == sel.future
        IN  /\ sel.index >= k => r = 0
            /\ sel.index < k =>
                  /\ r \in FuturePositions
                  /\ Cardinality({j \in FuturePositions : EndOf(j) < EndOf(r)})
                        <= sel.index
                  /\ Cardinality({j \in FuturePositions : EndOf(j) <= EndOf(r)})
                        >= sel.index + 1
            /\ (sel.index = 0 /\ k > 0) =>
                  \A j \in FuturePositions : EndOf(r) <= EndOf(j)

\* C6's case: index 1 of a series of three future events, listed latest
\* first, gives the middle one.
C6_Witness ==
    /\ sel.futureDone
    /\ sel.index = 1
    /\ Cardinality(FuturePositions) = 3
    /\ EndOf(1) > EndOf(2) /\ EndOf(2) > EndOf(3)
    /\ sel.future = 2

\* ---- should_enter_market
\* The inputs of the call, read off the market and the quotes: the seconds
\* to the end date, and the BUY price of each side (0 for a price that is
\* missing or no number).
SecondsLeft == dec.endDate.t - dec.now
WellFormedMarket ==
    /\ dec.endDate.kind \in {"z", "naive"}
    /\ dec.tokens.kind = "list" /\ Len(dec.tokens.toks) >= 2
    /\ dec.quotes.ok
BuyOf(token) == SafePrice(BuyField(dec.quotes.book, token))
YesBuy == BuyOf("tY")
NoBuy == BuyOf("tN")
Entered(side) == dec.decision.r = "enter" /\ dec.decision.side = side
InBand(lo, hi) == SecondsLeft > lo /\ SecondsLeft < hi

\* The threshold the claim gives each band, in thousandths; 0 outside them.
BandThreshold ==
    IF InBand(30, 100) THEN 750
    ELSE IF InBand(100, 180) THEN 850
    ELSE IF SecondsLeft > 180 /\ SecondsLeft <= 240 THEN 900
    ELSE 0

\* C7 as stated: with both BUY prices at most 0.98, in the bands (30,100),
\* (100,180) and (180,240] a side is entered exactly when its BUY price is
\* at least the band's threshold 0.75, 0.85, 0.90.
C7_SideEnteredAtThreshold ==
    (dec.done /\ WellFormedMarket /\ BandThreshold # 0
        /\ YesBuy <= 980 /\ NoBuy <= 980) =>
        /\ Entered("YES") <=> YesBuy >= BandThreshold
        /\ Entered("NO") <=> NoBuy >= BandThreshold

\* C7 amended: in those bands YES is entered, with the YES token, exactly
\* when the YES BUY price is at least the band's threshold; NO is entered,
\* with the NO token, exactly when the NO BUY price is at least the
\* threshold and the YES BUY price is below it.
C7_YesBeforeNoAtThreshold ==
    (dec.done /\ WellFormedMarket /\ BandThreshold # 0
        /\ YesBuy <= 980 /\ NoBuy <= 980) =>
        /\ Entered("YES") <=> YesBuy >= BandThreshold
        /\ Entered("NO") <=> (NoBuy >= BandThreshold /\ YesBuy < BandThreshold)
        /\ Entered("YES") => dec.decision.token = "tY"
        /\ Entered("NO") => dec.decision.token = "tN"
        /\ dec.decision.r \in {"enter", "no_entry"}

\* C7's case: 150 s left, both sides quoted at 0.85 or more, YES entered.
C7_Witness ==
    /\ dec.done /\ WellFormedMarket
    /\ SecondsLeft = 150
    /\ YesBuy >= 850 /\ YesBuy <= 980
    /\ NoBuy >= 850 /\ NoBuy <= 980
    /\ Entered("YES")

\* C8 as stated: with 30 s or less, or more than 240 s, to the end date,
\* should_enter_market returns no-entry whatever the prices.
C8_NoEntryOutsideWindow ==
    (dec.done /\ WellFormedMarket /\ (SecondsLeft <= 30 \/ SecondsLeft > 240)) =>
        dec.decision = NoEntry

\* C8 amended: with less than 30 s, or more than 240 s, to the end date,
\* should_enter_market returns no-entry whatever the prices (and whatever
\* the token pair and the quotes: it reads neither).
C8_NoEntryBefore30OrAfter240 ==
    (dec.done /\ dec.endDate.kind \in {"z", "naive"}
        /\ (SecondsLeft < 30 \/ SecondsLeft > 240)) =>
        dec.decision = NoEntry

\* C8's case: 29 s left and a YES price of 0.90, no entry.
C8_Witness ==
    /\ dec.done /\ WellFormedMarket
    /\ SecondsLeft = 29
    /\ YesBuy = 900
    /\ dec.decision = NoEntry

\* C9: when the BUY price of either side is above 0.98 the decision is
\* no-entry, also when a side meets the threshold of the time band.
C9_NoEntryAbove98 ==
    (dec.done /\ WellFormedMarket /\ (YesBuy > 980 \/ NoBuy > 980)) =>
        dec.decision = NoEntry

\* C9's case: inside the window, NO above 0.98 and YES at the band's
\* threshold or more (and not above 0.98 itself), no entry.
C9_Witness ==
    /\ dec.done /\ WellFormedMarket
    /\ BandThreshold # 0
    /\ NoBuy > 980
    /\ YesBuy >= BandThreshold /\ YesBuy <= 980
    /\ dec.decision = NoEntry

\* ---- the ledger round trip
\* A file as save_placed_market_ids writes it: the one key market_ids, a
\* list that holds each of its ids once.
WellFormedFile(f) ==
    /\ f.kind = "record"
    /\ ~f.extra
    /\ \A i \in BagToSet(f.ids) : CopiesIn(i, f.ids) = 1

\* The ids a file holds, whatever its form.
IdsOf(f) == IF f.kind \in {"record", "keyed"} THEN BagToSet(f.ids) ELSE {}

\* What a file persists, up to the order of its ids: the ids of its list,
\* each as often as it stands there, and whether it holds anything else
\* (other keys, text that is no ledger).  A missing file and an empty
\* ledger persist the same: nothing.
Content(f) ==
    [ids |-> IF f.kind = "record" THEN f.ids ELSE EmptyBag,
     other |-> f.extra \/ f.kind \in {"corrupt", "shape", "keyed"}]

\* C10 as stated: for every state of the file, save(load()) leaves the
\* persisted content unchanged up to the order of the ids.
C10_RoundTripNoOp ==
    led.step = "saved" => Content(led.file) = Content(led.before)

\* C10 amended: for a file as save writes it (the one key market_ids, each
\* id once) save(load()) leaves the content unchanged up to the order of
\* the ids; for every other state of the file (missing, unreadable, other
\* keys, repeated ids, market_ids no list) it writes the file of that form
\* that holds once each id load reads, none for a missing or unreadable one.
C10_RoundTripNormalises ==
    led.step = "saved" =>
        /\ WellFormedFile(led.file)
        /\ BagToSet(led.file.ids) = IdsOf(led.before)
        /\ WellFormedFile(led.before) => led.file = led.before
        /\ led.before.kind \in {"missing", "corrupt", "shape"} =>
              led.file.ids = EmptyBag

\* C10's case: the round trip over a file of two ids, as save writes it.
C10_Witness ==
    /\ led.step = "saved"
    /\ WellFormedFile(led.before)
    /\ Cardinality(BagToSet(led.before.ids)) >= 2
    /\ led.file = led.before

C12_SeriesAndSidesInOrder ==
    /\ [](\A p \in Procs :
            LET log == passLog[p]
            IN  /\ \A i \in 1..Len(log) :
                      /\ log[i].side = (IF i % 2 = 1 THEN "YES" ELSE "NO")
                      /\ (i % 2 = 0) =>
                            /\ log[i].series = log[i - 1].series
                            /\ log[i].id = log[i - 1].id
                      /\ (i % 2 = 1 /\ i > 1) =>
                            log[i - 1].series < log[i].series
                      /\ log[i].series <= idx[p]
                /\ (pc[p] = "series" /\ Len(log) > 0) =>
                      (Len(log) % 2 = 0 /\ Last(log).series < idx[p]))
    /\ [][\A p \in Procs :
            (InPass(p) /\ pc'[p] # "sleep") =>
                idx'[p] \in {idx[p], idx[p] + 1}]_vars

\* C12's case: a pass has placed the orders of two series.
C12_Witness ==
    /\ Len(passLog["bot1"]) = 4
    /\ passLog["bot1"][1].series = 1
    /\ passLog["bot1"][3].series = 2

\* ---- the event a pass seeds
\* The events of series s that have an end date after t, by their position
\* in the series' list, and the token pair of the market of an event.
SeriesFuture(s, t) ==
    {j \in 1..Len(SeriesEvents(s)) :
        HasDate(SeriesEvents(s)[j]) /\ SeriesEvents(s)[j].endDate.t > t}
EarlierIn(s, t, j) ==
    {k \in SeriesFuture(s, t) :
        SeriesEvents(s)[k].endDate.t < SeriesEvents(s)[j].endDate.t}
TokensOf(ev) == {<<ev.slug, "YES">>, <<ev.slug, "NO">>}

\* C14: the market a pass takes up for a series is the one of the series'
\* second-soonest future event (exactly one future event ends before it),
\* never the nearest one; every seed order is for a token of that market;
\* and for a series with fewer than two future events the loop moves on
\* with no order and no id marked.
C14_SeedsSecondSoonestOnly ==
    [][\A p \in Procs :
          /\ (pc[p] = "series" /\ pc'[p] = "yes") =>
                \E j \in SeriesFuture(idx[p], now) :
                    /\ Cardinality(EarlierIn(idx[p], now, j)) = 1
                    /\ market'[p].yes \in TokensOf(SeriesEvents(idx[p])[j])
                    /\ market'[p].no \in TokensOf(SeriesEvents(idx[p])[j])
          /\ Submits(p) =>
                /\ Last(passLog'[p]).token \in {market[p].yes, market[p].no}
                /\ Last(passLog'[p]).series = idx[p]
          /\ (pc[p] = "series" /\ idx[p] <= NumSeries
                /\ <<pc[p], idx[p]>> # <<pc'[p], idx'[p]>>
                /\ Cardinality(SeriesFuture(idx[p], now)) < 2) =>
                /\ pc'[p] = "series" /\ idx'[p] = idx[p] + 1
                /\ placed_ids'[p] = placed_ids[p]
                /\ passLog'[p] = passLog[p]
                /\ submitted' = submitted]_vars

\* C14's case: with two future events in the first series, the pass has
\* placed an order for the later one; the nearest one has none.
C14_Witness ==
    /\ now = 0
    /\ Len(passLog["bot1"]) >= 1
    /\ passLog["bot1"][1].token = <<<<1, 2>>, "YES">>
    /\ Cardinality(SeriesFuture(1, now)) >= 2

\* ---- the write of a pass
\* The file is written by the step that ends a pass after its loop, and by
\* no other step (the write at most once, and not between two series).
C15_WriteOnlyAtEnd ==
    [][\A p \in Procs :
          (file' # file \/ (outcome' = "saved" /\ PassEnds(p))) =>
              /\ pc[p] = "series" /\ idx[p] > NumSeries
              /\ pc'[p] = "sleep"
              /\ file' = SavePlacedMarketIds(placed_ids[p])]_vars

\* C15: every pass writes the ledger file exactly once, after its last
\* series, and the write holds every id the pass marked: the step that ends
\* a pass that is in its loop is that write, and no other step writes.
C15_OneWritePerPass ==
    [][\A p \in Procs :
          /\ (InPass(p) /\ PassEnds(p)) =>
                /\ outcome' = "saved"
                /\ idx[p] > NumSeries
                /\ file'.kind = "record"
                /\ placed_ids[p] \subseteq BagToSet(file'.ids)
          /\ ~PassEnds(p) => file' = file]_vars

\* ---- the ledger over the passes
\* C16: no id is ever removed from the ledger file: whatever step the bot
\* takes, a save included, the ids the file holds after it include the ids
\* it held before.
C16_LedgerOnlyGrows ==
    [][IdsOf(file) \subseteq IdsOf(file')]_vars

\* C16's case: a pass has saved a second id to a file that held one from
\* an earlier run, and the old id is still there.
C16_Witness ==
    /\ outcome = "saved"
    /\ file.kind = "record"
    /\ Cardinality(IdsOf(file)) >= 2
    /\ \E i \in IdsOf(file) : <<i, "YES">> \notin submitted

\* ---- the master loop
\* C17: the master loop never stops: whatever happened in a cycle, the loop
\* comes to the start of a new cycle again and again, and every time it
\* goes on from there into a new seed pass.
C17_LoopNeverStops ==
    \A p \in Procs :
        /\ []<>(pc[p] = "cycle")
        /\ []<>(pc[p] # "cycle")
        /\ (pc[p] = "sleep" /\ outcome = "aborted") ~> (pc[p] = "cycle")

\* C17's case: the loop is at the start of a new cycle after a cycle whose
\* seed pass raised.
C17_Witness ==
    /\ pc["bot1"] = "cycle"
    /\ outcome = "aborted"

\* ---- the band edges
AnyEntered == dec.decision.r = "enter"
BestBuy == IF YesBuy >= NoBuy THEN YesBuy ELSE NoBuy

\* C20: at the edges the comparisons are strict.  With both BUY prices at
\* most 0.98: at exactly 240 s left and at exactly 30 s left the market is
\* inside the window (entered when a side reaches 0.90, resp. 0.75); at
\* exactly 180 s the threshold is 0.90, at exactly 100 s it is 0.85, and
\* below 100 s (down to 30 s) it is 0.75.
C20_EdgesAreStrict ==
    (dec.done /\ WellFormedMarket /\ YesBuy <= 980 /\ NoBuy <= 980) =>
        /\ SecondsLeft = 240 => (AnyEntered <=> BestBuy >= 900)
        /\ SecondsLeft = 180 => (AnyEntered <=> BestBuy >= 900)
        /\ SecondsLeft = 100 => (AnyEntered <=> BestBuy >= 850)
        /\ (SecondsLeft < 100 /\ SecondsLeft >= 30) =>
              (AnyEntered <=> BestBuy >= 750)
        /\ SecondsLeft = 30 => (AnyEntered <=> BestBuy >= 750)

\* C20's case: exactly 30 s left, a side at 0.75 or more, entered.
C20_Witness ==
    /\ dec.done /\ WellFormedMarket
    /\ SecondsLeft = 30
    /\ BestBuy >= 750 /\ BestBuy <= 980
    /\ AnyEntered

\* ---- the active-trading phase
\* The market of the last turn of the poll, as it was given to the turn.
PolledSecondsLeft == bot.polled.resp.endDate.t
PolledHasDate == bot.polled.resp.endDate.kind \in {"z", "naive"}

\* C18: the phase stops polling only by the check that a polled market has
\* fewer than 30 seconds left: a step that ends the polling is the return
\* of that check, never an exception of a fetch, of a malformed market or
\* quote, or of an order.
C18_OnlyExitIsUnder30 ==
    [][(bot.pc = "poll" /\ bot'.pc # "poll") =>
          /\ bot'.pc = "returned"
          /\ bot'.polled.resp.status = "ok"
          /\ bot'.polled.resp.endDate.kind \in {"z", "naive"}
          /\ bot'.polled.resp.endDate.t < 30]_vars

\* What holds of the exits: the phase returns only from a market with fewer
\* than 30 seconds left, and a failed order does not end it.
C18_ReturnOnlyUnder30 ==
    /\ bot.pc = "returned" =>
          (bot.polled.resp.status = "ok" /\ PolledHasDate
              /\ PolledSecondsLeft < 30)
    /\ Len(bot.turn.placed) > 0 => bot.pc = "poll"

\* The SELL price the loop's own quotes give for a side, 0 when they give
\* none.
SellQuoted(side) ==
    LET book == bot.polled.q1.sell
        token == IF side = "YES" THEN "tY" ELSE "tN"
    IN  IF token \in DOMAIN book /\ book[token].kind = "num"
        THEN book[token].v ELSE 0

\* C19: in a turn of a poll in which should_enter_market signals an entry,
\* exactly one buy order is submitted, for the token of the signalled side
\* and at that side's SELL price of the quotes the loop fetched; in a turn
\* with no signal no order is submitted.
C19_OneOrderPerSignal ==
    LET d == bot.turn.decision
        placed == bot.turn.placed
    IN  /\ bot.turn.decided =>
              d = ShouldEnterMarket(bot.polled.resp, 0, bot.polled.q2)
        /\ (bot.turn.decided /\ d.r = "enter") =>
              /\ Len(placed) = 1
              /\ placed[1].token = (IF d.side = "YES" THEN "tY" ELSE "tN")
              /\ placed[1].token = d.token
              /\ placed[1].price = SellQuoted(d.side)
        /\ (~bot.turn.decided \/ d.r # "enter") => placed = <<>>

\* C19's case: NO is signalled, and the one order is for the NO token at
\* the NO SELL price 0.07, the YES SELL price being 0.93.
C19_Witness ==
    /\ bot.turn.decided
    /\ bot.turn.decision.r = "enter" /\ bot.turn.decision.side = "NO"
    /\ Len(bot.turn.placed) = 1
    /\ bot.turn.placed[1].token = "tN"
    /\ bot.turn.placed[1].price = 70
    /\ SellQuoted("YES") = 930

\* ---- events without a usable end date
\* The list without its j-th event, and the slug of the event at a position
\* of a list (0 for none).
RemoveAt(events, j) ==
    SubSeq(events, 1, j - 1) \o SubSeq(events, j + 1, Len(events))
SlugAt(events, pos) == IF pos = 0 THEN 0 ELSE events[pos].slug

\* C21: an event whose endDate is missing or no timestamp is left out and
\* does not abort the selection: each selector returns the event it returns
\* for the series without that event.
C21_BadDateEventIsSkipped ==
    \A j \in 1..Len(sel.events) :
        ~HasDate(sel.events[j]) =>
            /\ sel.futureDone =>
                  SlugAt(sel.events, sel.future)
                      = SlugAt(RemoveAt(sel.events, j),
                               GetFutureEventFromSeries(RemoveAt(sel.events, j),
                                                        sel.now, sel.index))
            /\ sel.activeDone =>
                  SlugAt(sel.events, sel.active)
                      = SlugAt(RemoveAt(sel.events, j),
                               GetActiveEventFromSeries(RemoveAt(sel.events, j),
                                                        sel.now))

\* C21's case: a series whose first event has no usable end date and whose
\* later events are in the future; both selectors have returned an event.
C21_Witness ==
    /\ sel.futureDone /\ sel.future # 0
    /\ sel.activeDone /\ sel.active # 0
    /\ Len(sel.events) = 3
    /\ ~HasDate(sel.events[1])
    /\ HasDate(sel.events[2]) /\ HasDate(sel.events[3])

\* C22: a market whose record carries no id is skipped by the seed phase: no
\* order is submitted for it and nothing enters the ledger for it.  The id of
\* such a record reads "None" after str().
C22_NoIdMarketIsSkipped ==
    /\ \A o \in submitted : o[1] # "None"
    /\ \A p \in Procs : "None" \notin placed_ids[p]
    /\ "None" \notin IdsOf(file)

\* The ids the pass in progress has marked (placed_ids.add goes with the NO
\* order of the id).
MarkedInPass(p) ==
    {passLog[p][k].id : k \in {n \in 1..Len(passLog[p]) : passLog[p][n].side = "NO"}}

\* C24: a pass that raises before its save leaves the file as it was when the
\* pass started: no step of the pass but its final save writes the file, and
\* the ids the pass marked in memory, whose orders were submitted, are not in
\* the file when the pass has raised.
C24_AbortedPassPersistsNothing ==
    [][\A p \in Procs :
          /\ (/\ pc[p] \in {"cycle", "load", "series", "yes", "no"}
              /\ ~(PassEnds(p) /\ outcome' = "saved")) => file' = file
          /\ (PassEnds(p) /\ outcome' = "aborted") =>
                MarkedInPass(p) \cap IdsOf(file') = {}]_vars

C24_Witness ==
    /\ pc["bot1"] = "sleep"
    /\ outcome = "aborted"
    /\ \E i \in RealIds :
          /\ <<i, "YES">> \in submitted
          /\ <<i, "NO">> \in submitted
          /\ i \notin IdsOf(file)

\* C25: from an empty ledger on, every id in placed_markets.json is one whose
\* YES and NO place_buy_order calls were both made before the save that wrote
\* it: no id is in the file before, or without, both calls.
C25_PersistedAfterBothAttempts ==
    \A i \in IdsOf(file) :
        /\ <<i, "YES">> \in submitted
        /\ <<i, "NO">> \in submitted

C25_Witness ==
    /\ outcome = "saved"
    /\ \E i \in RealIds : i \in IdsOf(file)
    /\ \E p \in Procs : order_res[p] = NoOrders /\ pc[p] = "sleep"

\* C27: for every series, get_active_event_from_series(series) returns the
\* event get_future_event_from_series(series, 0) returns: none when the
\* series has no event or no future event, and among events of equal endDate
\* the same one (the first in the series' list).
C27_ActiveIsFutureIndexZero ==
    (sel.index = 0 /\ sel.futureDone /\ sel.activeDone) =>
        /\ sel.active = sel.future
        /\ (FuturePositions = {}) = (sel.active = 0)
        /\ sel.active # 0 =>
              \A j \in FuturePositions :
                  EndOf(j) = EndOf(sel.active) => sel.active <= j

C27_Witness ==
    /\ sel.index = 0 /\ sel.futureDone /\ sel.activeDone
    /\ Len(sel.events) = 3
    /\ FuturePositions = {1, 2, 3}
    /\ EndOf(1) > EndOf(2) /\ EndOf(2) = EndOf(3)
    /\ sel.active = 2 /\ sel.future = 2

\* A request of the phase failed: get_crypto_series, get_market_from_series
\* or get_live_prices raised, or the market fetch gave an empty record.
FetchFailed ==
    \/ bot.pc = "raised"
    \/ bot.pc = "poll" /\ bot.k > 1 /\ bot.polled.resp.status = "empty"

\* C26: when a series has a future event at the start of the phase, time goes
\* by and every fetch succeeds, start_trading_bot returns in the end, at a
\* market with fewer than 30 seconds left; series_ids is filled at the start
\* and never selected again between polls.
C26_ReturnsOnFixedSlugs ==
    /\ [][bot.pc = "poll" => bot'.ids = bot.ids]_vars
    /\ [][(bot.pc = "poll" /\ bot'.pc = "returned") =>
             bot'.polled.resp.endDate.t - bot.t < BotMinSeconds]_vars
    /\ ([]~FetchFailed) =>
          <>(bot.pc = "returned" \/ (bot.pc = "poll" /\ bot.ids = <<>>))

C26_Witness ==
    /\ bot.pc = "returned"
    /\ bot.t >= 2 * SleepSeconds
    /\ Len(bot.ids) = NumSeries
    /\ bot.polled.resp.status = "ok"
    /\ bot.polled.resp.endDate.t - bot.t < BotMinSeconds

\* The ids a pass in progress has placed orders for.
SeededInPass(p) == {passLog[p][k].id : k \in 1..Len(passLog[p])}

\* C23: with two bot processes on the same file, a save writes the saving
\* process's placed_ids and nothing else, whatever the file held (last writer
\* wins).  So an id the other process persisted after the saver's load is
\* lost, and a market id is seeded by both processes.
C23_SaveWritesSaversSet ==
    [][\A p \in Bots :
          (PassEnds(p) /\ outcome' = "saved" /\ pc[p] = "series"
                /\ idx[p] > NumSeries) =>
              /\ WellFormedFile(file')
              /\ IdsOf(file') = placed_ids[p]]_vars

\* bot2 loaded a from the file and a is in the file no more (bot1, which had
\* loaded before a was saved, has saved since), and bot2 is placing orders
\* for b, which bot1 has seeded and saved.
C23_Witness ==
    \E a, b \in RealIds :
        /\ a # b
        /\ InPass("bot2")
        /\ a \in placed_ids["bot2"] \ MarkedInPass("bot2")
        /\ a \notin IdsOf(file)
        /\ b \in SeededInPass("bot2")
        /\ b \in IdsOf(file)
        /\ pc["bot1"] = "sleep"

====
